---- MODULE Spec2Model ----
(***************************************************************************)
(* Watch: a directory watcher that reruns a command after filesystem       *)
(* changes.  The module holds four state machines over one set of          *)
(* variables:                                                              *)
(*   Spec       the coordination loop (main), the timer, run/wait, the     *)
(*              spawned processes, the display, the acme event goroutine   *)
(*              (events) and the watcher goroutine seen from the changes   *)
(*              channel;                                                   *)
(*   ScanSpec   startWatching over every small tree;                       *)
(*   WatchSpec  the watch registry and the event normaliser                *)
(*              (startWatching, sendChanges, modTime, watchDir, watch,     *)
(*              isDir) over a small directory tree that the environment    *)
(*              mutates, with the coordination loop as the consumer of     *)
(*              the changes channel;                                       *)
(*   NormSpec   sendChanges and modTime over every small tree and every    *)
(*              event.                                                     *)
(* Time is a logical clock: every time.Now() reading is later than every   *)
(* earlier one; rebuildDelay is counted in units of 100ms.                 *)
(***************************************************************************)
EXTENDS Integers, Sequences, FiniteSets, TLC

\* ---------------------------------------------------------------- bounds
MaxTime == 6
MaxRuns == 2
MaxUIEvents == 2
\* the latest modification time an event for a long-unchanged path resolves to
MaxOldTime == 1
\* entries in the tree when the watcher starts
MaxEntries == 3
\* entries in the tree when the watcher starts, where the tree then changes
MaxWatchEntries == 1
\* paths the exclusion regexp matches
MaxExcluded == 1
\* changes the environment makes to the tree
MaxFsOps == 3

\* ------------------------------------------------------ program constants
\* const rebuildDelay = 200 * time.Millisecond, in units of 100ms
rebuildDelay == 2
\* killChan = make(chan time.Time, 1)
killChanCap == 1

\* time.Time{}: the zero time, before every clock reading
ZeroTime == 0
\* the timer is neither armed nor due
NoTimer == -1

VARIABLES
    now,            \* the clock: the latest reading handed out
    lastRun,        \* main: lastRun
    lastChange,     \* main: lastChange
    timerAt,        \* main: timer, the instant it is armed for (NoTimer: not armed)
    timerC,         \* main: timer.C holds an expiry (the channel's one slot)
    asynctimerchan, \* the build's timer channels are buffered (Go before 1.23)
    pcMain,         \* main goroutine: "select", "start" (in run, before cmd.Start), "wait"
    start,          \* run: start
    n,              \* wait: n, the number of termination requests accepted
    runs,           \* number of commands started; the current cmd is procs[runs]
    procs,          \* every spawned process: "none", "running", "zombie", "reaped"
    behaviour,      \* what the current command does: "finite", "hang", "stubborn"
    status,         \* wait: status, the exit status Wait4 reports for the command
    display,        \* the lines the display shows, oldest first
    killChan,       \* killChan: the buffered channel of kill requests
    pcUI,           \* events goroutine: "idle", "get_kill", "get_rerun", "del_kill", "del_ctl";
                    \* "none": there is none, the display is the terminal (-t)
    killT,          \* kill: the time.Now() evaluated for the pending send
    uiEvents,       \* number of acme events read so far
    winDeleted,     \* the acme window has been deleted
    halted,         \* the watcher process has exited (os.Exit, log.Fatal)
    pcW,            \* watcher goroutine: "recv" (reading w.Events), "send" (at changes <- time)
    wTime,          \* sendChanges: time, the value being sent
    hist,           \* observations of the run so far (no effect on the program)
    kind,           \* the directory tree: path -> "none", "file", "dir", "bad"
    excludeRe,      \* excludeRe: the set of paths the regexp matches
    watched,        \* the paths the fsnotify watcher holds a watch on
    events,         \* w.Events: the filesystem events not yet read
    stack,          \* the watchDir calls in progress, innermost last
    wEv,            \* sendChanges: ev, the event being handled
    fsOps,          \* number of changes made to the tree so far
    whist           \* observations of the watcher (no effect on the program)

vars == <<now, lastRun, lastChange, timerAt, timerC, asynctimerchan, pcMain,
          start, n, runs, procs, behaviour, status, display, killChan, pcUI, killT, uiEvents,
          winDeleted, halted, pcW, wTime, hist, kind, excludeRe, watched,
          events, stack, wEv, fsOps, whist>>

mainVars == <<lastRun, lastChange, timerAt, timerC, pcMain, start, n>>
cmdVars == <<runs, procs, behaviour, status>>
procVars == <<runs, procs, behaviour, status, display>>
uiVars == <<pcUI, killT, uiEvents, winDeleted>>
watcherVars == <<pcW, wTime>>
fsVars == <<kind, excludeRe, watched, events, stack, wEv, fsOps, whist>>
ctlVars == <<now, lastRun, lastChange, timerAt, timerC, asynctimerchan, pcMain,
             start, n, runs, procs, behaviour, status, display, killChan, pcUI, killT, uiEvents,
             winDeleted, halted, hist>>

Behaviours == {"finite", "hang", "stubborn"}

\* ------------------------------------------------------------ observations
\* sigs:       the signals sent to the current run, in order
\* kills:      kill requests issued by the UI since the current run's start time
\* reqArrived: a rebuild request of the scheduler (a change, or the expiry of
\*             the timer with a rebuild due) arrived while the current command ran
\* sinceChange: scheduler-triggered runs since the last change was received
\* skipped:    the last timer expiry found lastRun not before lastChange
\* unserved:   a change was made and no run has started since
\* spawnFailed: cmd.Start failed
\* staleTaken: the current wait took from killChan a request older than start
\* staleSig:   a signal was sent for a request older than the run's start
\* deadSig:    a signal was sent for a pid that was not started or that wait
\*             had already reaped
\* trig:       what triggered the latest run: "timer", "rerun" ("none": no run yet)
\* burstN, burstLast, burstBroken, burstTrig, burstEarly: the first burst of
\*             changes, its triggers, and whether one fired before its last event
HistInit ==
    [sigs |-> <<>>, kills |-> 0, reqArrived |-> FALSE,
     sinceChange |-> 0, skipped |-> FALSE, unserved |-> FALSE,
     burstN |-> 0, burstLast |-> 0, burstBroken |-> FALSE, burstTrig |-> 0,
     burstEarly |-> FALSE, spawnFailed |-> FALSE, trig |-> "none",
     staleTaken |-> FALSE, staleSig |-> FALSE, deadSig |-> FALSE]

\* the current command has been started and has not exited
Running == runs > 0 /\ procs[runs] = "running"

Live == {i \in 1..MaxRuns : procs[i] \in {"running", "zombie"}}

\* ------------------------------------------------------------ the display
\* The display holds lines: "cmd" (the command and its arguments), "out"
\* (the output of the command, whatever it wrote until it ended), "exit"
\* (the exit status line), "time" (the time line), "fatal" (the report of
\* a failed cmd.Start).

\* the exit statuses of a command that exits by itself
ExitStatuses == {0, 1}

\* status.ExitStatus() of a command that a signal ended
SignaledStatus == -1

\* -t: the ui is writerUI{os.Stdout}, no events goroutine is started and
\* rerun() is a nil channel
term == pcUI = "none"

\* (mutant) redisplay without the clearing of the window's body
ClearedNever(d) == d

\* redisplay, before f is called: winUI empties the body of the window
\* (Addr(","), Write("data", nil)); writerUI leaves what was written
Cleared(d) == IF term THEN d ELSE <<>>

\* (mutant) run without the report of the exit status
ExitLineNever(s) == <<>>

\* run: if s := wait(start, cmd); s != 0 { "exit status ..." }
ExitLine(s) == IF s # 0 THEN <<"exit">> ELSE <<>>


\* -------------------------------------------------------------- the tree
\* The entry names of a directory, in the order ioutil.ReadDir returns them.
NameSeq == <<"a", "b">>

Names == {NameSeq[i] : i \in 1..Len(NameSeq)}

\* The paths at or below the watched root *watchPath, as sequences of
\* names: the tree is at most as deep as a directory is wide.
MaxDepth == Len(NameSeq)

Paths == UNION {[1..d -> Names] : d \in 0..MaxDepth}

Root == <<>>

\* path.Dir(p)
Parent(p) == SubSeq(p, 1, Len(p) - 1)

\* path.Join(p, e.Name())
Join(p, e) == Append(p, e)

\* the proper ancestors of p below the root, and p itself
Chain(p) == {SubSeq(p, 1, k) : k \in 1..Len(p)}

\* A tree: every entry lies in a directory.
IsTree(t) ==
    /\ t[Root] \in {"dir", "file"}
    /\ \A p \in Paths \ {Root} : t[p] # "none" => t[Parent(p)] = "dir"

Entries(t) == {p \in Paths \ {Root} : t[p] # "none"}

\* the sets of at most k paths that hold the directory of each member
EntrySets(k) ==
    {E \in SUBSET (Paths \ {Root}) :
        /\ Cardinality(E) <= k
        /\ \A p \in E : Parent(p) = Root \/ Parent(p) \in E}

\* the trees of at most k entries: plain files, directories, and entries
\* whose stat fails ("bad")
TreesOf(k) ==
    UNION {{t \in {[p \in Paths |->
                      IF p = Root THEN r ELSE IF p \in E THEN f[p] ELSE "none"] :
                    r \in {"dir", "file"}, f \in [E -> {"file", "dir", "bad"}]} :
             IsTree(t)} : E \in EntrySets(k)}

Trees == TreesOf(MaxEntries)

\* excludeRe != nil && excludeRe.MatchString(p)
Excluded(p) == p \in excludeRe

\* ioutil.ReadDir(p): the names of p's entries, sorted
ReadDir(p) ==
    SelectSeq(NameSeq, LAMBDA e : Len(p) < MaxDepth /\ kind[Join(p, e)] # "none")

\* isDir(p): os.Stat(p); "err" for a failure other than not-exist
isDir(p) ==
    CASE kind[p] = "none" -> "false"
      [] kind[p] = "bad" -> "err"
      [] kind[p] = "dir" -> "true"
      [] OTHER -> "false"

\* modTime(p): os.Stat(p), and on not-exist modTime(path.Dir(p)).  The
\* result names the path whose modification time is returned (above: an
\* ancestor of the watched root, which exists), or is an error.
\* (mutant) modTime without the step to path.Dir(p): a missing path is an
\* error
modTimeNoParent(p) ==
    [err |-> kind[p] \in {"none", "bad"}, path |-> p, above |-> FALSE]

RECURSIVE modTime(_)
modTime(p) ==
    CASE kind[p] = "bad" -> [err |-> TRUE, path |-> p, above |-> FALSE]
      [] kind[p] # "none" -> [err |-> FALSE, path |-> p, above |-> FALSE]
      [] p = Root -> [err |-> FALSE, path |-> Root, above |-> TRUE]
      [] OTHER -> modTime(Parent(p))

\* visited: the directories watchDir has read
\* ignored: the paths whose events the exclusion filter discarded
\* early:   the tree was changed while startWatching was still running
\* failed:  the paths whose events were discarded because modTime failed
WHistInit == [visited |-> {}, ignored |-> {}, early |-> FALSE, failed |-> {}]

FsInit(t) ==
    /\ kind = t
    /\ excludeRe \in {S \in SUBSET Paths : Cardinality(S) <= MaxExcluded}
    /\ watched = {}
    /\ events = <<>>
    /\ stack = <<>>
    /\ wEv = [name |-> Root, op |-> "none"]
    /\ fsOps = 0
    /\ whist = WHistInit

EmptyTree == [p \in Paths |-> IF p = Root THEN "dir" ELSE "none"]

\* the watched root has been removed
GoneTree == [p \in Paths |-> "none"]

\* the operations an fsnotify event reports
Ops == {"Create", "Write", "Remove"}

\* ------------------------------------------------------------------- Init
\* The state as main enters its loop.
CtlInit ==
    /\ now = 1
    /\ lastRun = ZeroTime
    /\ lastChange = 1
    /\ timerAt = 1
    /\ timerC = FALSE
    /\ pcMain = "select"
    /\ start = ZeroTime
    /\ n = 0
    /\ runs = 0
    /\ procs = [i \in 1..MaxRuns |-> "none"]
    /\ behaviour = "finite"
    /\ status = 0
    /\ display = <<>>
    /\ killChan = <<>>
    /\ killT = ZeroTime
    /\ uiEvents = 0
    /\ winDeleted = FALSE
    /\ halted = FALSE
    /\ wTime = ZeroTime
    /\ hist = HistInit

\* The coordination loop over a watcher that has finished startWatching.
Init ==
    /\ CtlInit
    /\ asynctimerchan \in BOOLEAN
    /\ pcUI \in {"idle", "none"}
    /\ pcW = "recv"
    /\ kind = EmptyTree
    /\ excludeRe = {}
    /\ watched = {Root}
    /\ events = <<>>
    /\ stack = <<>>
    /\ wEv = [name |-> Root, op |-> "none"]
    /\ fsOps = 0
    /\ whist = WHistInit

\* ------------------------------------------------------------- the clock
\* Time passes.  Only an armed timer observes the passing of time, so the
\* clock is advanced here only towards the instant the timer is armed for.
Tick ==
    /\ ~halted
    /\ now < MaxTime
    /\ timerAt # NoTimer
    /\ now < timerAt
    /\ now' = now + 1
    /\ UNCHANGED <<mainVars, asynctimerchan, procVars, killChan, uiVars, halted,
                   watcherVars, hist,
                   fsVars>>

\* The runtime delivers the expiry of the armed timer to timer.C (a
\* non-blocking send into its one slot).
TimerFire ==
    /\ ~halted
    /\ timerAt # NoTimer
    /\ now >= timerAt
    /\ timerC' = TRUE
    /\ timerAt' = NoTimer
    /\ hist' = [hist EXCEPT !.reqArrived = @ \/ (Running /\ lastRun < lastChange)]
    /\ UNCHANGED <<now, lastRun, lastChange, asynctimerchan, pcMain, start, n,
                   procVars, killChan, uiVars, halted, watcherVars,
                   fsVars>>

\* ------------------------------------------------------------------ main
\* timer.Reset(rebuildDelay): re-arms the timer.  With buffered timer
\* channels an expiry already in timer.C stays there; otherwise it is
\* discarded.
TimerReset ==
    /\ timerAt' = now + rebuildDelay
    /\ timerC' = IF asynctimerchan THEN timerC ELSE FALSE

\* case lastChange = <-changes: timer.Reset(rebuildDelay)
MainChange ==
    /\ ~halted
    /\ pcMain = "select"
    /\ pcW = "send"
    /\ lastChange' = wTime
    /\ TimerReset
    /\ pcW' = "recv"
    /\ wTime' = ZeroTime
    /\ hist' = [hist EXCEPT !.sinceChange = 0]
    /\ UNCHANGED <<now, lastRun, asynctimerchan, pcMain, start, n, procVars,
                   killChan, uiVars, halted,
                   fsVars>>

\* run, up to cmd.Start: the display is cleared, the command line is
\* written and start := time.Now().
RunBegin(trig) ==
    /\ now < MaxTime
    /\ runs < MaxRuns
    /\ now' = now + 1
    /\ start' = now + 1
    /\ pcMain' = "start"
    /\ display' = Append(Cleared(display), "cmd")
    /\ hist' = [hist EXCEPT
                  !.kills = 0,
                  !.trig = trig,
                  !.sinceChange = IF trig = "timer" THEN @ + 1 ELSE @,
                  !.skipped = FALSE,
                  !.burstTrig = IF trig = "timer" /\ hist.burstN > 0 /\ @ < 2
                                THEN @ + 1 ELSE @]

\* case <-ui.rerun(): lastRun = run(ui)
MainRerun ==
    /\ ~halted
    /\ pcMain = "select"
    /\ pcUI = "get_rerun"
    /\ pcUI' = "idle"
    /\ RunBegin("rerun")
    /\ UNCHANGED <<lastRun, lastChange, timerAt, timerC, asynctimerchan, n,
                   cmdVars, killChan, killT, uiEvents, winDeleted, halted,
                   watcherVars,
                   fsVars>>

\* (mutant) the timer case without its condition
RebuildAlways == TRUE

\* (mutant) the condition of the timer case with its operands swapped
RebuildSwapped == lastChange < lastRun

\* the condition of the timer case: lastRun.Before(lastChange)
RebuildDue == lastRun < lastChange

\* case <-timer.C: if lastRun.Before(lastChange) { lastRun = run(ui) }
MainTimer ==
    /\ ~halted
    /\ pcMain = "select"
    /\ timerC
    /\ timerC' = FALSE
    /\ IF RebuildDue
         THEN RunBegin("timer")
         ELSE /\ hist' = [hist EXCEPT !.skipped = TRUE]
              /\ UNCHANGED <<now, start, pcMain, display>>
    /\ UNCHANGED <<lastRun, lastChange, timerAt, asynctimerchan, n, cmdVars,
                   killChan, uiVars, halted, watcherVars,
                   fsVars>>

\* cmd.Start(): the command is spawned, or the spawn fails, which is
\* written to the display, and the watcher exits (os.Exit(1)).  wait then
\* begins with n = 0.
CmdStart ==
    /\ ~halted
    /\ pcMain = "start"
    /\ \/ /\ runs' = runs + 1
          /\ procs' = [procs EXCEPT ![runs + 1] = "running"]
          /\ behaviour' \in Behaviours
          /\ status' = 0
          /\ n' = 0
          /\ pcMain' = "wait"
          /\ hist' = [hist EXCEPT !.sigs = <<>>, !.reqArrived = FALSE,
                                  !.unserved = FALSE, !.staleTaken = FALSE]
          /\ UNCHANGED <<halted, display>>
       \/ /\ display' = Append(display, "fatal")
          /\ halted' = TRUE
          /\ hist' = [hist EXCEPT !.spawnFailed = TRUE]
          /\ UNCHANGED <<runs, procs, behaviour, status, n, pcMain>>
    /\ UNCHANGED <<now, lastRun, lastChange, timerAt, timerC, asynctimerchan,
                   start, killChan, uiVars, watcherVars,
                   fsVars>>

\* (mutant) wait never escalates
SignalAlwaysTerm(k) == "SIGTERM"

\* wait: if n == 0 SIGTERM else SIGKILL
SignalFor(k) == IF k = 0 THEN "SIGTERM" ELSE "SIGKILL"

\* (mutant) wait without the check of the request's time
StaleKillNever(t) == FALSE

\* (mutant) the check of the request's time with its operands swapped
StaleKillSwapped(t) == start < t

\* wait: if t.Before(start) { continue }
StaleKill(t) == t < start

\* syscall.Kill(p, sig) on the current command: SIGKILL ends a running
\* process; SIGTERM is left to the process (see ProcExit).
Killed(sig) ==
    IF sig = "SIGKILL" /\ procs[runs] = "running"
      THEN [procs EXCEPT ![runs] = "zombie"]
      ELSE procs

\* wait, case t := <-killChan
WaitKill ==
    /\ ~halted
    /\ pcMain = "wait"
    /\ killChan # <<>>
    /\ killChan' = Tail(killChan)
    /\ IF StaleKill(Head(killChan))
         THEN /\ hist' = [hist EXCEPT !.staleTaken = TRUE]
              /\ UNCHANGED <<n, procs, status, display>>
         ELSE /\ procs' = Killed(SignalFor(n))
              /\ status' = IF procs' # procs THEN SignaledStatus ELSE status
              /\ display' = IF procs' # procs THEN Append(display, "out")
                                              ELSE display
              /\ hist' = [hist EXCEPT
                            !.sigs = Append(@, SignalFor(n)),
                            !.staleSig = @ \/ Head(killChan) < start,
                            !.deadSig = @ \/ runs = 0 \/ procs[runs] \notin
                                                          {"running", "zombie"}]
              /\ n' = n + 1
    /\ UNCHANGED <<now, lastRun, lastChange, timerAt, timerC, asynctimerchan,
                   pcMain, start, runs, behaviour, uiVars, halted, watcherVars,
                   fsVars>>

\* (mutant) case q >= 0: wait returns although Wait4 reported no exit
ReapedOrRunning == procs[runs] \in {"zombie", "running"}

\* wait, case <-ticker.C: case q > 0, Wait4(pid, WNOHANG) returned the pid
Reaped == procs[runs] = "zombie"

\* (mutant) run returns the time it read before cmd.Start
RunReturnAtStart == start

\* run: return time.Now(), read when the command has been reaped and the
\* time line written
RunReturn == now + 1

\* (mutant) wait without the return: its loop goes on after the reaping
WaitReturnNever == "wait"

\* wait, case q > 0: return status.ExitStatus(); run returns and main is
\* back at its select
WaitReturn == "select"

\* wait, case <-ticker.C.  When Wait4 reports the pid, wait returns, run
\* writes the exit status and the time, and main stores run's time.Now()
\* in lastRun; otherwise the loop goes round.
WaitPoll ==
    /\ ~halted
    /\ pcMain = "wait"
    /\ IF Reaped
         THEN /\ now < MaxTime
              /\ procs' = [procs EXCEPT
                             ![runs] = IF @ = "zombie" THEN "reaped" ELSE @]
              /\ display' = display \o ExitLine(status) \o <<"time">>
              /\ now' = now + 1
              /\ lastRun' = RunReturn
              /\ pcMain' = WaitReturn
         ELSE UNCHANGED <<procs, display, now, lastRun, pcMain>>
    /\ UNCHANGED <<lastChange, timerAt, timerC, asynctimerchan, start, n, runs,
                   behaviour, status, killChan, uiVars, halted, watcherVars, hist,
                   fsVars>>

\* ------------------------------------------------------ the spawned command
\* A running command exits: by itself ("finite"), or after SIGTERM unless it
\* ignores it ("stubborn").  Its output is then complete, and its exit
\* status is what Wait4 will report.
ProcExit ==
    /\ \E i \in 1..MaxRuns :
         /\ procs[i] = "running"
         /\ \/ i < runs
            \/ behaviour = "finite"
            \/ behaviour = "hang" /\ hist.sigs # <<>>
         /\ procs' = [procs EXCEPT ![i] = "zombie"]
         /\ IF i = runs
              THEN /\ status' \in ExitStatuses
                   /\ display' = Append(display, "out")
              ELSE UNCHANGED <<status, display>>
    /\ UNCHANGED <<now, mainVars, asynctimerchan, runs, behaviour, killChan,
                   uiVars, halted, watcherVars, hist,
                   fsVars>>

\* ------------------------------------------------- the events goroutine
\* kill(): killChan <- time.Now(); the time is read before the send blocks.
KillBegin(pc) ==
    /\ ~halted
    /\ pcUI = "idle"
    /\ uiEvents < MaxUIEvents
    /\ now < MaxTime
    /\ now' = now + 1
    /\ killT' = now + 1
    /\ uiEvents' = uiEvents + 1
    /\ pcUI' = pc
    /\ UNCHANGED <<mainVars, asynctimerchan, procVars, killChan, winDeleted,
                   halted, watcherVars,
                   fsVars>>

\* case "Get": kill() ...
UIGet ==
    /\ KillBegin("get_kill")
    /\ hist' = [hist EXCEPT !.kills = @ + 1]

\* case "Del": kill() ...
UIDel ==
    /\ KillBegin("del_kill")
    /\ hist' = [hist EXCEPT !.kills = @ + 1]

\* kill(): the send into killChan completes
UIKillSend ==
    /\ ~halted
    /\ pcUI \in {"get_kill", "del_kill"}
    /\ Len(killChan) < killChanCap
    /\ killChan' = Append(killChan, killT)
    /\ pcUI' = IF pcUI = "get_kill" THEN "get_rerun" ELSE "del_ctl"
    /\ killT' = ZeroTime
    /\ UNCHANGED <<now, mainVars, asynctimerchan, procVars, uiEvents,
                   winDeleted, halted, watcherVars, hist,
                   fsVars>>

\* case "Del": win.Ctl("delete"); it fails on a window already deleted
\* (log.Fatalln).
UIDelCtl ==
    /\ ~halted
    /\ pcUI = "del_ctl"
    /\ IF winDeleted
         THEN halted' = TRUE /\ UNCHANGED <<pcUI, winDeleted>>
         ELSE winDeleted' = TRUE /\ pcUI' = "idle" /\ UNCHANGED halted
    /\ UNCHANGED <<now, mainVars, asynctimerchan, procVars, killChan, killT,
                   uiEvents, watcherVars, hist,
                   fsVars>>

\* The event channel of a deleted window is closed: os.Exit(0).
UIExit ==
    /\ ~halted
    /\ pcUI = "idle"
    /\ winDeleted
    /\ halted' = TRUE
    /\ UNCHANGED <<now, mainVars, asynctimerchan, procVars, killChan, uiVars,
                   watcherVars, hist,
                   fsVars>>

\* ------------------------------------- the watcher, seen from the channel
\* sendChanges reaches changes <- time for an event of a path that is not
\* excluded.  fresh: the path has just been changed (its modification time
\* is the present); otherwise modTime resolved to an older time m.
WatcherEvent ==
    /\ ~halted
    /\ pcW = "recv"
    /\ now < MaxTime
    /\ \/ /\ now' = now + 1
          /\ wTime' = now + 1
          /\ hist' = [hist EXCEPT
                !.unserved = TRUE,
                !.reqArrived = @ \/ Running,
                !.burstN = IF @ = 0 THEN 1
                           ELSE IF now + 1 - hist.burstLast < rebuildDelay
                                  THEN 2 ELSE @,
                !.burstLast = now + 1,
                !.burstBroken = @ \/ (hist.burstN > 0 /\
                                      now + 1 - hist.burstLast >= rebuildDelay),
                !.burstEarly = @ \/ hist.burstTrig > 0]
       \/ /\ \E m \in 1..MaxOldTime : m <= now /\ wTime' = m
          /\ UNCHANGED <<now, hist>>
    /\ pcW' = "send"
    /\ UNCHANGED <<mainVars, asynctimerchan, procVars, killChan, uiVars, halted,
                   fsVars>>


\* ---------------------------------------------------------- the registry
Top == stack[Len(stack)]

Pop == SubSeq(stack, 1, Len(stack) - 1)

Frame(p) == [p |-> p, phase |-> "read", ents |-> <<>>]

\* where the watcher goes when the outermost watchDir returns
AfterWatchDir(rest) ==
    IF rest # <<>> THEN pcW ELSE IF pcW = "scan" THEN "recv" ELSE "send"

\* watch(w, p): w.Add(p); a path that no longer exists is not watched
watch(p) == IF kind[p] # "none" THEN watched \cup {p} ELSE watched

\* startWatching: isDir(p), then watchDir(w, p) or watch(w, p); a stat
\* failure is fatal.
StartWatching ==
    /\ ~halted
    /\ pcW = "start"
    /\ CASE isDir(Root) = "err" ->
              halted' = TRUE /\ UNCHANGED <<pcW, stack, watched>>
         [] isDir(Root) = "true" ->
              /\ stack' = <<Frame(Root)>>
              /\ pcW' = "scan"
              /\ UNCHANGED <<halted, watched>>
         [] OTHER ->
              /\ watched' = watch(Root)
              /\ pcW' = "recv"
              /\ UNCHANGED <<halted, stack>>
    /\ UNCHANGED <<now, mainVars, asynctimerchan, procVars, killChan, uiVars,
                   wTime, hist, kind, excludeRe, events, wEv, fsOps, whist>>

\* watchDir: ents, err := ioutil.ReadDir(p).  A directory that is gone is
\* left alone; any other failure is logged and p is still watched.
WatchDirRead ==
    /\ ~halted
    /\ pcW \in {"scan", "watchdir"}
    /\ stack # <<>>
    /\ Top.phase = "read"
    /\ IF kind[Top.p] = "none"
         THEN /\ stack' = Pop
              /\ pcW' = AfterWatchDir(Pop)
              /\ UNCHANGED whist
         ELSE /\ stack' = [stack EXCEPT ![Len(stack)] =
                             [p |-> Top.p, phase |-> "loop",
                              ents |-> IF kind[Top.p] = "dir"
                                         THEN ReadDir(Top.p) ELSE <<>>]]
              /\ whist' = [whist EXCEPT !.visited = @ \cup {Top.p}]
              /\ UNCHANGED pcW
    /\ UNCHANGED <<ctlVars, wTime, kind, excludeRe, watched, events, wEv, fsOps>>

\* (mutant) watchDir without the exclusion check
DescendAll(sub) == isDir(sub) = "true"

\* watchDir: whether the loop descends into the entry sub
Descend(sub) == ~Excluded(sub) /\ isDir(sub) = "true"

\* watchDir: one round of the loop over ents
WatchDirEntry ==
    /\ ~halted
    /\ pcW \in {"scan", "watchdir"}
    /\ stack # <<>>
    /\ Top.phase = "loop"
    /\ Top.ents # <<>>
    /\ LET sub == Join(Top.p, Head(Top.ents))
           rest == [stack EXCEPT ![Len(stack)].ents = Tail(@)]
       IN  stack' = IF Descend(sub) THEN Append(rest, Frame(sub)) ELSE rest
    /\ UNCHANGED <<ctlVars, watcherVars, kind, excludeRe, watched, events, wEv,
                   fsOps, whist>>

\* watchDir: watch(w, p) after the loop, and return
WatchDirWatch ==
    /\ ~halted
    /\ pcW \in {"scan", "watchdir"}
    /\ stack # <<>>
    /\ Top.phase = "loop"
    /\ Top.ents = <<>>
    /\ watched' = watch(Top.p)
    /\ stack' = Pop
    /\ pcW' = AfterWatchDir(Pop)
    /\ UNCHANGED <<ctlVars, wTime, kind, excludeRe, events, wEv, fsOps, whist>>

\* ----------------------------------------------------- the normaliser
\* (mutant) sendChanges without the exclusion filter
IgnoredNever(ev) == FALSE

\* sendChanges: whether the event is discarded by the exclusion filter
Ignored(ev) == Excluded(ev.name)

\* sendChanges, case ev := <-w.Events, up to the isDir check: the
\* exclusion filter and modTime.
WEvent ==
    /\ ~halted
    /\ pcW = "recv"
    /\ events # <<>>
    /\ events' = Tail(events)
    /\ LET ev == Head(events) IN
         IF Ignored(ev)
           THEN /\ whist' = [whist EXCEPT !.ignored = @ \cup {ev.name}]
                /\ UNCHANGED <<pcW, wTime, wEv>>
           ELSE IF modTime(ev.name).err
                  THEN /\ whist' = [whist EXCEPT !.failed = @ \cup {ev.name}]
                       /\ UNCHANGED <<pcW, wTime, wEv>>
                  ELSE /\ UNCHANGED whist
                       /\ wTime' = now
                       /\ wEv' = ev
                       /\ pcW' = IF ev.op = "Create" THEN "isdir" ELSE "send"
    /\ UNCHANGED <<ctlVars, kind, excludeRe, watched, stack, fsOps>>

\* sendChanges: if ev.Op&fsnotify.Create != 0, isDir(ev.Name): an error
\* drops the event, a directory is handed to watchDir.
WIsDir ==
    /\ ~halted
    /\ pcW = "isdir"
    /\ CASE isDir(wEv.name) = "err" -> pcW' = "recv" /\ UNCHANGED stack
         [] isDir(wEv.name) = "true" ->
              pcW' = "watchdir" /\ stack' = <<Frame(wEv.name)>>
         [] OTHER -> pcW' = "send" /\ UNCHANGED stack
    /\ UNCHANGED <<ctlVars, wTime, kind, excludeRe, watched, events, wEv, fsOps,
                   whist>>

\* -------------------------------------------------------- the environment
\* The kernel queues an event for p when its directory is watched, and
\* for the removal of p when p is.
Notify(p, op) ==
    IF Parent(p) \in watched \/ (op = "Remove" /\ p \in watched)
      THEN Append(events, [name |-> p, op |-> op])
      ELSE events

FsOp ==
    /\ ~halted
    /\ fsOps < MaxFsOps
    /\ fsOps' = fsOps + 1
    /\ whist' = [whist EXCEPT !.early = @ \/ pcW \in {"start", "scan"}]

\* mkdir p
FsMkdir ==
    /\ FsOp
    /\ \E p \in Paths \ {Root} :
         /\ kind[p] = "none"
         /\ kind[Parent(p)] = "dir"
         /\ kind' = [kind EXCEPT ![p] = "dir"]
         /\ events' = Notify(p, "Create")
    /\ UNCHANGED <<ctlVars, watcherVars, excludeRe, watched, stack, wEv>>

\* a file p is created or written
FsWrite ==
    /\ FsOp
    /\ \E p \in Paths \ {Root} :
         /\ kind[p] \in {"none", "file"}
         /\ kind[Parent(p)] = "dir"
         /\ kind' = [kind EXCEPT ![p] = "file"]
         /\ events' = Notify(p, IF kind[p] = "none" THEN "Create" ELSE "Write")
    /\ UNCHANGED <<ctlVars, watcherVars, excludeRe, watched, stack, wEv>>

\* rm p, rmdir p: the kernel drops the watch on p with it
FsRemove ==
    /\ FsOp
    /\ \E p \in Paths \ {Root} :
         /\ kind[p] # "none"
         /\ \A q \in Paths : (q # Root /\ Parent(q) = p) => kind[q] = "none"
         /\ kind' = [kind EXCEPT ![p] = "none"]
         /\ watched' = watched \ {p}
         /\ events' = Notify(p, "Remove")
    /\ UNCHANGED <<ctlVars, watcherVars, excludeRe, stack, wEv>>

\* ------------------------------------------------------------------- Next
Next ==
    \/ Tick
    \/ TimerFire
    \/ MainChange
    \/ MainRerun
    \/ MainTimer
    \/ CmdStart
    \/ WaitKill
    \/ WaitPoll
    \/ ProcExit
    \/ UIGet
    \/ UIDel
    \/ UIKillSend
    \/ UIDelCtl
    \/ UIExit
    \/ WatcherEvent

Spec == Init /\ [][Next]_vars

\* startWatching over every small tree and exclusion pattern.
ScanInit ==
    /\ CtlInit
    /\ asynctimerchan = TRUE
    /\ pcUI = "idle"
    /\ pcW = "start"
    /\ \E t \in Trees : FsInit(t)

ScanNext ==
    \/ StartWatching
    \/ WatchDirRead
    \/ WatchDirEntry
    \/ WatchDirWatch

ScanSpec == ScanInit /\ [][ScanNext]_vars

\* The watcher over a tree that the environment changes, with main
\* receiving from the changes channel (the timer never expires here, so the
\* kind of its channel makes no difference).
WatchInit ==
    /\ CtlInit
    /\ asynctimerchan = TRUE
    /\ pcUI = "idle"
    /\ pcW = "start"
    /\ \E t \in TreesOf(MaxWatchEntries) : t[Root] = "dir" /\ FsInit(t)

WatchNext ==
    \/ StartWatching
    \/ WatchDirRead
    \/ WatchDirEntry
    \/ WatchDirWatch
    \/ WEvent
    \/ WIsDir
    \/ MainChange
    \/ FsMkdir
    \/ FsWrite
    \/ FsRemove

WatchSpec == WatchInit /\ [][WatchNext]_vars

\* sendChanges over every small tree, with two events queued: any event of
\* any path, whatever has become of the path since, and a write after it.
NormInit ==
    /\ CtlInit
    /\ asynctimerchan = TRUE
    /\ pcUI = "idle"
    /\ pcW = "recv"
    /\ kind \in Trees \cup {GoneTree}
    /\ excludeRe = {}
    /\ watched = {p \in Paths : \A q \in Chain(p) \cup {Root} : kind[q] = "dir"}
    /\ events \in {<<[name |-> p, op |-> o], [name |-> q, op |-> "Write"]>> :
                      p \in Paths, o \in Ops, q \in Paths}
    /\ stack = <<>>
    /\ wEv = [name |-> Root, op |-> "none"]
    /\ fsOps = 0
    /\ whist = WHistInit

NormNext ==
    \/ WEvent
    \/ WIsDir
    \/ WatchDirRead
    \/ WatchDirEntry
    \/ WatchDirWatch
    \/ MainChange

NormSpec == NormInit /\ [][NormNext]_vars

\* ================================================================ claims
\* Nothing is pending anywhere: main is at its select with the timer
\* neither armed nor expired, the watcher has no change to send and the
\* events goroutine is reading events.
Quiescent ==
    /\ ~halted
    /\ pcMain = "select"
    /\ pcW = "recv"
    /\ pcUI = "idle"
    /\ timerAt = NoTimer
    /\ ~timerC

\* C1: at most one spawned command is live (started and not yet reaped) at
\* any time, and a command is live only while main is inside wait: a new
\* run never begins before wait saw the previous pid reaped.
C1_OneLiveCommand ==
    /\ Cardinality(Live) <= 1
    /\ pcMain # "wait" => Live = {}

\* C1 witness: a second command is running after the first was reaped.
C1_Witness ==
    /\ runs = 2
    /\ procs[1] = "reaped"
    /\ procs[2] = "running"
    /\ pcMain = "wait"

C3_Escalation ==
    /\ \A i \in 1..Len(hist.sigs) :
         hist.sigs[i] = IF i = 1 THEN "SIGTERM" ELSE "SIGKILL"
    /\ pcMain = "wait" => n = Len(hist.sigs)

\* C3 witness: a run has been sent SIGTERM and then SIGKILL.
C3_Witness == hist.sigs = <<"SIGTERM", "SIGKILL">>

\* C4 as claimed: once everything has settled, and with no user request
\* involved, a burst of changes (each less than rebuildDelay after the one
\* before) has fired exactly one rebuild trigger, and none before its last
\* change.
C4_OneTriggerPerBurst ==
    (Quiescent /\ uiEvents = 0 /\ hist.burstN > 0 /\ ~hist.burstBroken)
        => (hist.burstTrig = 1 /\ ~hist.burstEarly)

\* C5: no change received since a scheduler-triggered run, no further
\* scheduler-triggered run: each received change (and the start) leads to
\* at most one.
C5_AtMostOneRunPerChange == hist.sinceChange <= 1

\* C5 witness: after a run, a timer expiry found lastRun not before
\* lastChange and started nothing.
C5_Witness ==
    /\ hist.skipped
    /\ hist.sinceChange = 1
    /\ pcMain = "select"
    /\ ~RebuildDue

\* C6 as claimed: no change is left without a later run; once everything
\* has settled, a run has started after every change made.
C6_EveryChangeServed == Quiescent => ~hist.unserved

\* C10 as claimed: while a run that was sent SIGTERM has not exited, the
\* events goroutine can take a further termination request to kill(): it
\* is not held in the send of a rerun request.
C10_KillDeliverable ==
    (pcMain = "wait" /\ procs[runs] = "running" /\ hist.sigs # <<>>)
        => pcUI # "get_rerun"

\* The directories startWatching is to watch: the root, and every directory
\* reached from it through directories that the pattern does not match.
Reachable ==
    IF kind[Root] = "dir"
      THEN {p \in Paths : \A q \in Chain(p) : kind[q] = "dir" /\ ~Excluded(q)}
      ELSE {Root}

\* The watcher has nothing left to do: it is reading w.Events, and no
\* event is queued.
WatcherIdle == ~halted /\ pcW = "recv" /\ events = <<>>

\* C7: an event of a path the exclusion pattern matches never reaches the
\* changes channel (nor the isDir check and watchDir on the way to it).
C7_ExcludedNeverSent ==
    pcW \in {"isdir", "watchdir", "send"} => ~Excluded(wEv.name)

\* C7 witness: an event of an excluded path was discarded although its
\* directory is watched and not excluded, and the watcher is reading again.
C7_Witness ==
    /\ pcW = "recv"
    /\ \E p \in whist.ignored :
         Excluded(p) /\ Parent(p) \in watched /\ ~Excluded(Parent(p))

\* C8 as claimed: with the tree left alone until startWatching is done,
\* once the watcher has handled every event, every directory reachable from
\* the root through non-excluded directories is watched, however the
\* creation of directories interleaved with the watcher's registration.
C8_NewDirsWatched ==
    (WatcherIdle /\ ~whist.early) => Reachable \subseteq watched

LastRunLines ==
    LET I == {i \in 1..Len(display) : display[i] = "cmd"}
    IN  IF I = {} THEN <<>>
        ELSE SubSeq(display, CHOOSE i \in I : \A j \in I : j <= i, Len(display))

\* C11: a non-zero exit status is written to the display (the exit status
\* line, before the time line) and does not stop the watcher: main is back
\* at its select, and the watcher exits only when cmd.Start failed (which
\* it reports as the last line of the display, and always exits on) or when
\* the window was deleted.
C11_ExitStatusNotFatal ==
    /\ (pcMain = "select" /\ runs > 0 /\ status # 0) =>
          /\ Len(display) >= 2
          /\ display[Len(display) - 1] = "exit"
          /\ display[Len(display)] = "time"
    /\ halted => (hist.spawnFailed \/ winDeleted)
    /\ hist.spawnFailed =>
          (halted /\ pcMain = "start" /\ display[Len(display)] = "fatal")

\* C11 witness: after a run that exited with a non-zero status, a change
\* was received and the timer case has entered run for it.
C11_Witness ==
    /\ ~halted
    /\ pcMain = "start"
    /\ runs = 1
    /\ procs[1] = "reaped"
    /\ status # 0
    /\ uiEvents = 0
    /\ lastRun < lastChange

\* The lines d are what a run has written by now, in order: the command
\* line before cmd.Start, then the output, then the exit status line if and
\* only if the status is not zero, then the time line, written only once
\* the command is reaped.
RunOrder(d) ==
    LET exit == IF status # 0 THEN <<"exit">> ELSE <<>>
    IN  CASE pcMain = "start" ->
               d = IF hist.spawnFailed THEN <<"cmd", "fatal">> ELSE <<"cmd">>
          [] pcMain = "wait" ->
               d = IF procs[runs] = "running" THEN <<"cmd">> ELSE <<"cmd", "out">>
          [] OTHER ->
               IF runs = 0 THEN d = <<>>
               ELSE /\ procs[runs] = "reaped"
                    /\ d = <<"cmd", "out">> \o exit \o <<"time">>

InRun == pcMain \in {"start", "wait"}

C14_LastChangeMonotone ==
    [][/\ lastChange' >= lastChange
       /\ (RebuildDue /\ lastRun' = lastRun) => RebuildDue']_vars

\* C15 as claimed, with no user request involved: a run that the timer
\* triggered, other than the first run, starts at least rebuildDelay after
\* the loop last received a change: the timer that the change armed
\* (timerAt is rebuildDelay after it) is not still ahead when run reads its
\* start time.
C15_NoRunWithinWindow ==
    (/\ hist.trig = "timer"
     /\ uiEvents = 0
     /\ \/ pcMain = "start" /\ runs > 0
        \/ pcMain = "wait" /\ runs > 1)
        => (timerAt = NoTimer \/ start >= timerAt)

\* Nothing is left to happen unless the tree changes or the events
\* goroutine moves: main is at its select with no change to receive and the
\* timer neither armed nor expired.
MainIdle ==
    /\ ~halted
    /\ pcMain = "select"
    /\ pcW = "recv"
    /\ timerAt = NoTimer
    /\ ~timerC

\* C16 as claimed: a Get leads to a new run with no change of the tree
\* needed.  While main is idle (and the window was never deleted), the
\* events goroutine handling a Get is therefore able to go on: it is at its
\* send of the rerun request, which main's select receives, or its kill()
\* finds room in killChan.
C16_GetLeadsToRun ==
    (MainIdle /\ ~winDeleted /\ pcUI \in {"get_kill", "get_rerun"})
        => (pcUI = "get_rerun" \/ Len(killChan) < killChanCap)

\* C17: as long as nothing in the tree has been changed and the user has
\* asked for nothing, the only run is the one that the expiry of the
\* zero-delay timer starts (lastRun is the zero time, lastChange the time
\* of the start); once main is idle that run has happened, and no second
\* run is ever triggered, whatever events of long-unchanged paths arrive.
C17_OneStartupRun ==
    (hist.burstN = 0 /\ uiEvents = 0) =>
        /\ runs <= 1
        /\ pcMain = "start" => runs = 0
        /\ runs = 1 => hist.trig = "timer"
        /\ MainIdle => (runs = 1 /\ procs[1] = "reaped")

\* C17 witness: the startup run is over, nothing was changed or asked for,
\* and a later expiry of the timer (re-armed by an event of a long-unchanged
\* path) has started nothing.
C17_Witness ==
    /\ MainIdle
    /\ hist.burstN = 0
    /\ uiEvents = 0
    /\ runs = 1
    /\ procs[1] = "reaped"
    /\ hist.skipped
    /\ lastChange < lastRun

\* the paths among p and its ancestors, up to the watched root, that exist
Existing(p) == {q \in Chain(p) \cup {Root} : kind[q] # "none"}

\* the nearest of them to p
Nearest(p) == CHOOSE q \in Existing(p) : \A r \in Existing(p) : Len(r) <= Len(q)

C19_StaleKillIgnored ==
    /\ ~hist.staleSig
    /\ pcMain = "wait" => n = Len(hist.sigs)
    /\ (pcMain = "wait" /\ hist.kills = 0) => (n = 0 /\ hist.sigs = <<>>)

\* C19 witness: wait has taken from killChan the request of a Get made
\* while no command ran; the command runs on, unsignalled, and n is 0.
C19_Witness ==
    /\ hist.staleTaken
    /\ hist.trig = "rerun"
    /\ pcMain = "wait"
    /\ procs[runs] = "running"
    /\ killChan = <<>>
    /\ n = 0
    /\ hist.sigs = <<>>

\* C20 as claimed: while main is idle (and the window was never deleted),
\* killChan holds no request that nothing will take: the events goroutine
\* is not inside kill() with killChan full, and when it is reading events
\* killChan is empty.
C20_KillReturns ==
    (MainIdle /\ ~winDeleted) =>
        /\ pcUI \in {"get_kill", "del_kill"} => Len(killChan) < killChanCap
        /\ pcUI = "idle" => killChan = <<>>

\* C21: a signal is sent only for the pid of a command that was started
\* and that wait has not yet seen reaped: wait, the only place that
\* signals, runs only while its command is live, and no signal has ever
\* gone to a pid that was not.
C21_SignalsOnlyLive ==
    /\ ~hist.deadSig
    /\ pcMain = "wait" => (runs > 0 /\ procs[runs] \in {"running", "zombie"})
    /\ hist.sigs # <<>> => runs > 0
    /\ \A i \in 1..MaxRuns : (procs[i] = "reaped" /\ i = runs) => pcMain # "wait"

\* C21 witness: the command has exited by itself and wait has not yet
\* reaped it; wait has sent SIGTERM and SIGKILL for its pid, the SIGKILL
\* (at least) after the exit.
C21_Witness ==
    /\ pcMain = "wait"
    /\ procs[runs] = "zombie"
    /\ status # SignaledStatus
    /\ hist.sigs = <<"SIGTERM", "SIGKILL">>

====
